---- MODULE Spec2Model ----
(***************************************************************************)
(* A model of the four training scripts of HRNAE/stanfordData4321:         *)
(* capsnet.py, main1.py, models/densenetBackup1.py and models/old_cnn.py.  *)
(*                                                                         *)
(* The module holds state machines over disjoint groups of variables; each *)
(* specification drives one group and leaves the others at their idle      *)
(* values:                                                                 *)
(*   SpecData     ExcelImageDataset: _get_image_paths and __getitem__      *)
(*   Spec         one run of one script, statement by statement            *)
(*   SpecCap      save_augmented_images_with_exact_cap (main1), one call   *)
(*   SpecAgain    the saving function of main1 or old_cnn, called twice    *)
(*   SpecOccl     generate_occlusion_sensitivity_map (densenetBackup1)     *)
(*   SpecCompute  compute_occlusion_sensitivity (old_cnn)                  *)
(*   SpecOS       the sensitivity-map loop and git commands (densenetBackup1) *)
(*                                                                         *)
(* Text that the code parses or formats (directory names made by str(),    *)
(* read back by int(), file names tested by endswith) is a sequence of     *)
(* one-character strings, so that the conversions are computed.            *)
(***************************************************************************)
EXTENDS Integers, Sequences, FiniteSets, TLC

VARIABLES
    \* ---- SpecData: ExcelImageDataset
    data_frame,     \* the spreadsheet rows read by pd.read_excel
    isfile,         \* the set of <<root_dir, file name>> for which os.path.isfile holds
    image_paths,    \* self.image_paths
    data_pc,        \* "new" | "built" | "got"
    item,           \* the last __getitem__ call: [idx |-> i, label |-> k]
    \* ---- Spec: one run of one script
    script,         \* which of the four scripts runs
    pc,             \* the statement the run is at
    err,            \* the exception that stopped the run, or "none"
    phases,         \* the phases the run has entered, in order (a log)
    xlsx,           \* whether the spreadsheet file exists
    start,          \* the output directory as the run found it: [fs, dirs]
    earlier,        \* the runs of the script that ended before this one (a log)
    fs,             \* the files under the script's augmented directory
    dirs,           \* the directories that exist at or under it
    written,        \* the files this run saved, in order (a log)
    label_to_images, lab_i, current_count, for_pos, target_count,
                    \* main1: the locals of save_augmented_images_with_exact_cap
    idx, num_augmentations,
                    \* old_cnn: the locals of save_augmented_images
    augmented_paths,\* AugmentedImageDataset.augmented_paths
    train_size, test_size,
    train_dataset, test_dataset,
                    \* the two subsets of random_split: their indices into
                    \* augmented_dataset, in order
    accuracy,       \* [defined, correct, total]: correct / total once computed
    \* ---- SpecOccl: generate_occlusion_sensitivity_map
    occ_h, occ_w,   \* the height and width of the input image
    occlusion_size, occlusion_stride,
    net,            \* the model: what its two outputs count (see NetOutput)
    image,          \* the input image: the set of its pixels that are 0
    original_class, original_score,
    sensitivity_map,
    writes,         \* how often each pixel of the map was assigned (a log)
    occ_i, occ_j,   \* the loop variables i and j
    occ_pc,         \* "start" | "loop" | "normalise" | "returned"
    occ_result,     \* the array returned
    \* ---- SpecOS: the sensitivity-map loop of densenetBackup1.py
    os_pc,          \* "makedirs" | "loop" | "git_add" | "git_commit" | "git_push" | "done"
    os_i,           \* the position in image_paths of the next image
    os_unreadable,  \* the positions of the images whose processing raises
    os_dirs,        \* the directories that exist
    os_made,        \* the directories the script passed to os.makedirs
    os_files,       \* the sensitivity maps on disk
    os_attempted,   \* the images the loop body was entered for, in order (a log)
    os_last,        \* the last line printed: [kind, at, dir, name]
    os_saved, os_errors,
                    \* how many 'Sensitivity map saved' and 'Error processing' lines
    git             \* the commands given to os.system, in order

dataVars == <<data_frame, isfile, image_paths, data_pc, item>>

runCtl == <<script, pc, err, phases>>

runEnv == <<xlsx, start, earlier>>

runDisk == <<fs, dirs, written>>

augVars == <<label_to_images, lab_i, current_count, for_pos, target_count, idx, num_augmentations>>

tailVars == <<augmented_paths, train_size, test_size, train_dataset, test_dataset, accuracy>>

runVars == <<runCtl, runEnv, runDisk, augVars, tailVars>>

occlVars == <<occ_h, occ_w, occlusion_size, occlusion_stride, net, image, original_class,
              original_score, sensitivity_map, writes, occ_i, occ_j, occ_pc, occ_result>>

osVars == <<os_pc, os_i, os_unreadable, os_dirs, os_made, os_files, os_attempted, os_last,
            os_saved, os_errors, git>>

vars == <<dataVars, runVars, occlVars, osVars>>

----------------------------------------------------------------------------
(* Bounds of the model. *)

\* the longest spreadsheet
MaxRows == 2
\* the most image files present in the root directories
MaxFiles == 2
\* the longest spreadsheet of a script run
MaxItems == 2
\* the most files an earlier run left in the augmented directory
MaxLeftover == 2
\* the largest target_count of save_augmented_images_with_exact_cap
MaxTarget == 2
\* the largest num_augmentations of save_augmented_images
MaxAug == 1
\* the largest height and width of an occluded image, beside the default one
MaxDim == 3
\* the largest occlusion_size and occlusion_stride, beside the default ones
MaxWin == 2
\* the most images whose processing raises, beside the run where all do
MaxFailures == 2

----------------------------------------------------------------------------
(* Text helpers. *)

Digit == <<"0", "1", "2", "3", "4", "5", "6", "7", "8", "9">>

\* Python's str() of an integer
RECURSIVE str(_)
str(n) ==
    IF n < 0 THEN <<"-">> \o str(0 - n)
    ELSE IF n < 10 THEN <<Digit[n + 1]>>
    ELSE str(n \div 10) \o <<Digit[(n % 10) + 1]>>

DigitValue(c) == (CHOOSE d \in 1..10 : Digit[d] = c) - 1

IsDigit(c) == \E d \in 1..10 : Digit[d] = c

RECURSIVE ParseDigits(_)
ParseDigits(s) ==
    IF Len(s) = 1 THEN DigitValue(s[1])
    ELSE 10 * ParseDigits(SubSeq(s, 1, Len(s) - 1)) + DigitValue(s[Len(s)])

\* the texts int() accepts here: an optionally signed run of decimal digits
IsIntLiteral(s) ==
    LET body == IF Len(s) > 0 /\ s[1] = "-" THEN Tail(s) ELSE s
    IN  Len(body) > 0 /\ \A k \in 1..Len(body) : IsDigit(body[k])

\* Python's int() of a string that IsIntLiteral; of any other string int()
\* raises ValueError, which the callers decide with IsIntLiteral
int(s) ==
    IF s[1] = "-" THEN 0 - ParseDigits(Tail(s)) ELSE ParseDigits(s)

\* str.endswith
endswith(s, suffix) ==
    /\ Len(s) >= Len(suffix)
    /\ SubSeq(s, Len(s) - Len(suffix) + 1, Len(s)) = suffix

DotPng == <<".", "p", "n", "g">>

----------------------------------------------------------------------------
(* ExcelImageDataset of main1.py, densenetBackup1.py and old_cnn.py (the   *)
(* three copies are the same code).                                        *)

categories ==
    << "7-malignant-bcc", "1-benign-melanocytic nevus", "6-benign-other",
       "14-other-non-neoplastic/inflammatory/infectious", "8-malignant-scc",
       "9-malignant-sccis", "10-malignant-ak", "3-benign-fibrous papule",
       "4-benign-dermatofibroma", "2-benign-seborrheic keratosis",
       "5-benign-hemangioma", "11-malignant-melanoma",
       "13-other-melanocytic lesion with possible re-excision (severe/spitz nevus, aimp)",
       "12-malignant-other" >>

root_dirs == << "images1", "images2", "images3", "images4" >>

\* {label: idx for idx, label in enumerate(categories)}
label_map ==
    [ c \in {categories[k] : k \in 1..Len(categories)} |->
        (CHOOSE k \in 1..Len(categories) : categories[k] = c) - 1 ]

\* The values the spreadsheet cells take in the model: two file names, and
\* three listed impressions (one of them with a two-digit index) and one
\* impression that is not in categories.
FileNames == {"a.jpg", "b.jpg"}

Impressions == {categories[2], categories[12], categories[14], "15-unlisted"}

Rows == [midas_file_name : FileNames, clinical_impression_1 : Impressions]

RECURSIVE SeqsUpTo(_, _)
SeqsUpTo(S, n) ==
    IF n = 0 THEN {<<>>}
    ELSE LET shorter == SeqsUpTo(S, n - 1)
         IN  shorter \cup {Append(s, x) : s \in {t \in shorter : Len(t) = n - 1}, x \in S}

\* the inner loop of _get_image_paths for one row, from root_roots[k] on:
\* the entries the row appends to valid_paths
RECURSIVE RowEntryForward(_, _, _, _)
RowEntryForward(row, roots, files, k) ==
    IF k > Len(roots) THEN <<>>
    ELSE LET img_name == <<roots[k], row.midas_file_name>>
         IN  IF img_name \in files
             THEN LET label == row.clinical_impression_1
                  IN  IF label \notin DOMAIN label_map
                      THEN RowEntryForward(row, roots, files, k + 1)   \* continue
                      ELSE << <<img_name, label>> >>                  \* append, break
             ELSE RowEntryForward(row, roots, files, k + 1)

\* a slip: the directories scanned last to first
RECURSIVE RowEntryBackward(_, _, _, _)
RowEntryBackward(row, roots, files, k) ==
    IF k > Len(roots) THEN <<>>
    ELSE LET img_name == <<roots[Len(roots) + 1 - k], row.midas_file_name>>
         IN  IF img_name \in files
             THEN LET label == row.clinical_impression_1
                  IN  IF label \notin DOMAIN label_map
                      THEN RowEntryBackward(row, roots, files, k + 1)
                      ELSE << <<img_name, label>> >>
             ELSE RowEntryBackward(row, roots, files, k + 1)

RowEntry(row, roots, files, k) == RowEntryForward(row, roots, files, k)

\* ExcelImageDataset._get_image_paths
RECURSIVE _get_image_paths(_, _, _)
_get_image_paths(frame, roots, files) ==
    IF frame = <<>> THEN <<>>
    ELSE _get_image_paths(SubSeq(frame, 1, Len(frame) - 1), roots, files)
            \o RowEntry(frame[Len(frame)], roots, files, 1)

\* a slip: enumerate(categories, 1)
LabelIndexFromOne(label) ==
    IF label \in DOMAIN label_map THEN label_map[label] + 1 ELSE -1

\* self.label_map.get(label, -1)
LabelIndex(label) ==
    IF label \in DOMAIN label_map THEN label_map[label] ELSE -1

\* ExcelImageDataset.__getitem__: the label it returns (the image is not modelled)
__getitem__(paths, i) == LabelIndex(paths[i + 1][2])

\* ExcelImageDataset.__len__
__len__(paths) == Len(paths)

DataInit ==
    /\ data_frame \in SeqsUpTo(Rows, MaxRows)
    /\ isfile \in {F \in SUBSET ({root_dirs[k] : k \in 1..Len(root_dirs)} \X FileNames) :
                      Cardinality(F) <= MaxFiles}
    /\ image_paths = <<>>
    /\ data_pc = "new"
    /\ item = [idx |-> -1, label |-> -1]

DataIdle ==
    /\ data_frame = <<>>
    /\ isfile = {}
    /\ image_paths = <<>>
    /\ data_pc = "idle"
    /\ item = [idx |-> -1, label |-> -1]

\* ExcelImageDataset.__init__
Construct ==
    /\ data_pc = "new"
    /\ image_paths' = _get_image_paths(data_frame, root_dirs, isfile)
    /\ data_pc' = "built"
    /\ UNCHANGED <<data_frame, isfile, item, runVars, occlVars, osVars>>

\* dataset[idx] for a valid index
GetItem ==
    /\ data_pc \in {"built", "got"}
    /\ \E i \in 0..(__len__(image_paths) - 1) :
          item' = [idx |-> i, label |-> __getitem__(image_paths, i)]
    /\ data_pc' = "got"
    /\ UNCHANGED <<data_frame, isfile, image_paths, runVars, occlVars, osVars>>

DataNext == Construct \/ GetItem

----------------------------------------------------------------------------
(* generate_occlusion_sensitivity_map of densenetBackup1.py.               *)
(*                                                                         *)
(* A pixel is <<y, x>>.  The image is binary: a pixel is 0 or not, and the *)
(* image is the set of its pixels that are 0, so that zeroing a window is  *)
(* a union.  The model has two outputs: output 0 counts the non-zero       *)
(* pixels with y < net.a and x < net.b, output 1 the other non-zero        *)
(* pixels; every occlusion window then changes a score by what it covers.  *)

img_size == 224

default_occlusion == 15

\* the outputs of model(image) for an h x w image with the zero pixels Z
NetOutput(h, w, n, Z) ==
    LET inside == Cardinality({q \in Z : q[1] < n.a /\ q[2] < n.b})
    IN  << n.a * n.b - inside,
           (h * w - n.a * n.b) - (Cardinality(Z) - inside) >>

\* a slip: only the windows that fit the image, range(0, n - size + 1, stride)
RangeOfFullWindows(n, size, stride) ==
    {k \in 0..(n - 1) : k % stride = 0 /\ k + size <= n}

\* range(0, n, stride)
RangeOfStarts(n, size, stride) == {k \in 0..(n - 1) : k % stride = 0}

Starts(n, size, stride) == RangeOfStarts(n, size, stride)

\* the pixels of the slice [i:i+size, j:j+size] of an h x w array
Window(h, w, i, j, size) ==
    {q \in (i..(i + size - 1)) \X (j..(j + size - 1)) : q[1] < h /\ q[2] < w}

\* np.zeros((h, w))
Zeros(h, w) == [y \in 0..(h - 1) |-> [x \in 0..(w - 1) |-> 0]]

\* the rows and columns of an array
Shape(m) == IF DOMAIN m = {} THEN <<0, 0>> ELSE <<Cardinality(DOMAIN m), Cardinality(DOMAIN m[0])>>

OcclInit ==
    /\ \/ /\ occ_h \in 1..MaxDim
          /\ occ_w \in 1..MaxDim
          /\ occlusion_size \in 1..MaxWin
          /\ occlusion_stride \in 1..MaxWin
          /\ net \in [a : 0..occ_h, b : 0..occ_w]
          /\ image \in {{}, {<<0, 0>>}}
       \/ /\ occ_h = img_size
          /\ occ_w = img_size
          /\ occlusion_size = default_occlusion
          /\ occlusion_stride = default_occlusion
          /\ net = [a |-> 100, b |-> 50]
          /\ image = {}
    /\ original_class = -1
    /\ original_score = 0
    /\ sensitivity_map = <<>>
    /\ writes = <<>>
    /\ occ_i = 0
    /\ occ_j = 0
    /\ occ_pc = "start"
    /\ occ_result = <<>>

OcclIdle ==
    /\ occ_h = 0
    /\ occ_w = 0
    /\ occlusion_size = 0
    /\ occlusion_stride = 0
    /\ net = [a |-> 0, b |-> 0]
    /\ image = {}
    /\ original_class = -1
    /\ original_score = 0
    /\ sensitivity_map = <<>>
    /\ writes = <<>>
    /\ occ_i = 0
    /\ occ_j = 0
    /\ occ_pc = "idle"
    /\ occ_result = <<>>

\* densenetBackup1.py 244-257: the prediction for the image itself (argmax;
\* which index wins a tie is the library's choice), the map of zeros
OcclStart ==
    /\ occ_pc = "start"
    /\ LET original_output == NetOutput(occ_h, occ_w, net, image)
       IN  \E c \in 0..1 :
              /\ \A d \in 0..1 : original_output[c + 1] >= original_output[d + 1]
              /\ original_class' = c
              /\ original_score' = original_output[c + 1]
    /\ sensitivity_map' = Zeros(occ_h, occ_w)
    /\ writes' = Zeros(occ_h, occ_w)
    /\ occ_i' = 0
    /\ occ_j' = 0
    /\ occ_pc' = "loop"
    /\ UNCHANGED <<occ_h, occ_w, occlusion_size, occlusion_stride, net, image, occ_result,
                   dataVars, runVars, osVars>>

Min(S) == CHOOSE v \in S : \A u \in S : v <= u

Max(S) == CHOOSE v \in S : \A u \in S : v >= u

\* densenetBackup1.py 261-271: the inner loop at the row occ_i, from the
\* column j on: the drop in the score of original_class of each window, in
\* the order of the windows
RECURSIVE RowDrops(_)
RowDrops(j) ==
    IF j >= occ_w THEN <<>>
    ELSE LET occluded_image == image \cup Window(occ_h, occ_w, occ_i, j, occlusion_size)
             occluded_score == NetOutput(occ_h, occ_w, net, occluded_image)[original_class + 1]
         IN  <<original_score - occluded_score>> \o RowDrops(j + occlusion_stride)

\* densenetBackup1.py 260-274: one pass of the outer loop, the windows at
\* (occ_i, j) for j in range(0, w, occlusion_stride) in turn; a pixel under
\* several of them keeps what the last one assigned
OccludeRow ==
    /\ occ_pc = "loop"
    /\ LET js == Starts(occ_w, occlusion_size, occlusion_stride)
           is == Starts(occ_h, occlusion_size, occlusion_stride)
           over(x) == {j \in js : j <= x /\ x < j + occlusion_size}
           in_rows(y) == occ_i <= y /\ y < occ_i + occlusion_size
       IN  /\ \E drops \in {RowDrops(0)} :
                 sensitivity_map' =
                    [y \in DOMAIN sensitivity_map |->
                        IF in_rows(y)
                        THEN [x \in DOMAIN sensitivity_map[y] |->
                                IF over(x) = {} THEN sensitivity_map[y][x]
                                ELSE drops[(Max(over(x)) \div occlusion_stride) + 1]]
                        ELSE sensitivity_map[y]]
           /\ writes' =
                 [y \in DOMAIN writes |->
                     IF in_rows(y)
                     THEN [x \in DOMAIN writes[y] |-> writes[y][x] + Cardinality(over(x))]
                     ELSE writes[y]]
           /\ occ_j' = IF js = {} THEN occ_j ELSE Max(js)
           /\ IF \E k \in is : k > occ_i
              THEN /\ occ_i' = occ_i + occlusion_stride
                   /\ UNCHANGED occ_pc
              ELSE /\ occ_pc' = "normalise"
                   /\ UNCHANGED occ_i
    /\ UNCHANGED <<occ_h, occ_w, occlusion_size, occlusion_stride, net, image,
                   original_class, original_score, occ_result, dataVars, runVars, osVars>>

MapValues(m) == UNION {{m[y][x] : x \in DOMAIN m[y]} : y \in DOMAIN m}

\* densenetBackup1.py 276-280: (map - min) / (max - min) * 255 as uint8.
\* For a constant map the quotient is 0/0 = nan everywhere, whose cast to
\* uint8 is not defined: the array holds one of the extreme values.  The
\* quotient is taken exactly (the rounding of the doubles is left out).
Normalise ==
    /\ occ_pc = "normalise"
    /\ \E lo \in {Min(MapValues(sensitivity_map))}, hi \in {Max(MapValues(sensitivity_map))} :
           IF hi = lo
           THEN \E v \in {0, 255} :
                   occ_result' = [y \in DOMAIN sensitivity_map |->
                                    [x \in DOMAIN sensitivity_map[y] |-> v]]
           ELSE occ_result' =
                   [y \in DOMAIN sensitivity_map |-> [x \in DOMAIN sensitivity_map[y] |->
                       (255 * (sensitivity_map[y][x] - lo)) \div (hi - lo)]]
    /\ occ_pc' = "returned"
    /\ UNCHANGED <<occ_h, occ_w, occlusion_size, occlusion_stride, net, image,
                   original_class, original_score, sensitivity_map, writes, occ_i, occ_j,
                   dataVars, runVars, osVars>>

OcclNext == OcclStart \/ OccludeRow \/ Normalise

\* the corner of the window that holds the pixel q when the windows tile
\* the image
WindowCorner(q) ==
    << occlusion_stride * (q[1] \div occlusion_stride),
       occlusion_stride * (q[2] \div occlusion_stride) >>

\* the default arguments on an img_size x img_size image
DefaultCase ==
    /\ occ_h = img_size
    /\ occ_w = img_size
    /\ occlusion_size = default_occlusion
    /\ occlusion_stride = default_occlusion

\* C6: the array returned has the height and width of the image; when the
\* stride equals the window size (the default 15 and 15 on 224 x 224 among
\* them) every pixel is assigned by exactly one window, and before the
\* normalisation its value is the score of the originally predicted class on
\* the image minus that score with the pixel's window zeroed.
C6_OneWindowPerPixel ==
    /\ occ_pc = "returned" => Shape(occ_result) = <<occ_h, occ_w>>
    /\ (occ_pc = "normalise" /\ occlusion_size = occlusion_stride) =>
          /\ \A y \in 0..(occ_h - 1), x \in 0..(occ_w - 1) : writes[y][x] = 1
          /\ \A i \in Starts(occ_h, occlusion_size, occlusion_stride),
                j \in Starts(occ_w, occlusion_size, occlusion_stride) :
                \A covered \in {Window(occ_h, occ_w, i, j, occlusion_size)} :
                \A drop \in {NetOutput(occ_h, occ_w, net, image)[original_class + 1]
                              - NetOutput(occ_h, occ_w, net, image \cup covered)[original_class + 1]} :
                \A q \in covered :
                   /\ sensitivity_map[q[1]][q[2]] = drop
                   /\ WindowCorner(q) = <<i, j>>

\* the default case was run: the last, cut-off window gave its pixels a drop
\* other than that of the first window
C6_Witness ==
    /\ DefaultCase
    /\ occ_pc = "normalise"
    /\ original_class = 1
    /\ sensitivity_map[0][0] = 0
    /\ sensitivity_map[223][223] = 196
    /\ sensitivity_map[223][0] = 210
    /\ sensitivity_map[90][45] = 175
    /\ writes[223][223] = 1

----------------------------------------------------------------------------
(* compute_occlusion_sensitivity of old_cnn.py 265-283, on the variables of *)
(* the map above: occ_i is its loop variable y, original_class the label    *)
(* it is given.  One step is one pass of the outer loop.                    *)

compute_occlusion_size == 16

compute_occlusion_stride == 8

\* F.softmax(model(image), dim=1)[0, label].item() for the image with the
\* zero pixels Z: a number the image determines; the model takes the output
\* of the label for it, which tells windows at different places apart
Score(Z, label) == NetOutput(occ_h, occ_w, net, Z)[label + 1]

\* a slip: the image itself is zeroed, no clone is taken
OccludedInPlace(img, windows) == img \cup UNION windows

\* old_cnn.py 276-277: the windows are zeroed in a clone, the image stays
OccludedInClone(img, windows) == img

ImageAfter(img, windows) == OccludedInClone(img, windows)

\* old_cnn.py 275-281: the inner loop at the row occ_i over the columns xs
\* still to come, on one row of the map: v the value assigned last, n how
\* many windows assigned it
RECURSIVE RowAfterWindows(_, _)
RowAfterWindows(row, xs) ==
    IF xs = {} THEN row
    ELSE LET x0 == Min(xs)
             score == CHOOSE v \in {Score(image \cup Window(occ_h, occ_w, occ_i, x0,
                                                           occlusion_size), original_class)} : TRUE
             assigned == [x \in DOMAIN row |->
                            IF x0 <= x /\ x < x0 + occlusion_size
                            THEN [v |-> original_score - score, n |-> row[x].n + 1]
                            ELSE row[x]]
         IN  RowAfterWindows(assigned, xs \ {x0})

ComputeInit ==
    /\ \/ /\ occ_h \in 1..MaxDim
          /\ occ_w \in 1..MaxDim
          /\ occlusion_size \in 1..MaxWin
          /\ occlusion_stride \in 1..MaxWin
          /\ net \in [a : 0..occ_h, b : 0..occ_w]
          /\ image \in {{}, {<<0, 0>>}}
          /\ original_class \in 0..1
       \/ /\ occ_h = img_size
          /\ occ_w = img_size
          /\ occlusion_size = compute_occlusion_size
          /\ occlusion_stride = compute_occlusion_stride
          /\ net = [a |-> 100, b |-> 50]
          /\ image = {}
          /\ original_class = 1
    /\ original_score = 0
    /\ sensitivity_map = <<>>
    /\ writes = <<>>
    /\ occ_i = 0
    /\ occ_j = 0
    /\ occ_pc = "start"
    /\ occ_result = <<>>

\* old_cnn.py 266-272: the score of the label on the image, the map of zeros
ComputeBegin ==
    /\ occ_pc = "start"
    /\ original_score' = Score(image, original_class)
    /\ sensitivity_map' = Zeros(occ_h, occ_w)
    /\ writes' = Zeros(occ_h, occ_w)
    /\ occ_i' = 0
    /\ occ_pc' = "loop"
    /\ UNCHANGED <<occ_h, occ_w, occlusion_size, occlusion_stride, net, image,
                   original_class, occ_j, occ_result, dataVars, runVars, osVars>>

\* old_cnn.py 274-281: one pass of the loop over y
ComputeRow ==
    /\ occ_pc = "loop"
    /\ LET xs == Starts(occ_w, occlusion_size, occlusion_stride)
           ys == Starts(occ_h, occlusion_size, occlusion_stride)
           in_rows(y) == occ_i <= y /\ y < occ_i + occlusion_size
       IN  /\ \E row \in {RowAfterWindows([x \in 0..(occ_w - 1) |-> [v |-> 0, n |-> 0]], xs)} :
                 /\ sensitivity_map' =
                       [y \in DOMAIN sensitivity_map |->
                           IF in_rows(y)
                           THEN [x \in DOMAIN sensitivity_map[y] |->
                                   IF row[x].n > 0 THEN row[x].v ELSE sensitivity_map[y][x]]
                           ELSE sensitivity_map[y]]
                 /\ writes' =
                       [y \in DOMAIN writes |->
                           IF in_rows(y)
                           THEN [x \in DOMAIN writes[y] |-> writes[y][x] + row[x].n]
                           ELSE writes[y]]
           /\ image' = ImageAfter(image, {Window(occ_h, occ_w, occ_i, x, occlusion_size) : x \in xs})
           /\ occ_j' = IF xs = {} THEN occ_j ELSE Max(xs)
           /\ IF \E k \in ys : k > occ_i
              THEN /\ occ_i' = occ_i + occlusion_stride
                   /\ UNCHANGED occ_pc
              ELSE /\ occ_pc' = "return"
                   /\ UNCHANGED occ_i
    /\ UNCHANGED <<occ_h, occ_w, occlusion_size, occlusion_stride, net,
                   original_class, original_score, occ_result, dataVars, runVars, osVars>>

\* old_cnn.py 283: return sensitivity_map
ComputeReturn ==
    /\ occ_pc = "return"
    /\ occ_result' = sensitivity_map
    /\ occ_pc' = "returned"
    /\ UNCHANGED <<occ_h, occ_w, occlusion_size, occlusion_stride, net, image,
                   original_class, original_score, sensitivity_map, writes, occ_i, occ_j,
                   dataVars, runVars, osVars>>

ComputeNext == ComputeBegin \/ ComputeRow \/ ComputeReturn

----------------------------------------------------------------------------
(* One run of one script.  The statements of a script are its top-level    *)
(* statements that touch the spreadsheet, the dataset, the augmented       *)
(* directory or the model; a run is at one of them (pc), has finished      *)
(* ("done") or was stopped by an exception ("error", with err).            *)

Scripts == {"capsnet", "main1", "densenetBackup1", "old_cnn"}

\* the statements of each script, in file order
StatementsAsWritten(s) ==
    CASE s = "main1" ->
            <<"check", "load", "dataset", "augment", "aug_dataset">>
      [] s = "old_cnn" ->
            <<"check", "load", "dataset", "augment", "aug_dataset", "split",
              "loaders", "train", "test", "occlusion">>
      [] s = "densenetBackup1" ->
            <<"dataset", "aug_dataset", "split", "loaders", "objective", "train",
              "evaluate">>
      [] s = "capsnet" ->
            <<"dataset", "loaders", "train">>

\* a slip: every script is given old_cnn's statements
StatementsAllAlike(s) == StatementsAsWritten("old_cnn")

\* a slip: the augmentation call placed above the existence check
StatementsAugmentFirst(s) ==
    IF s \in {"main1", "old_cnn"}
    THEN <<"augment">> \o StatementsAsWritten(s)
    ELSE StatementsAsWritten(s)

Statements(s) == StatementsAsWritten(s)

\* the statement after the k-th, or "done" after the last
Follows(s, k) ==
    IF k < Len(Statements(s)) THEN Statements(s)[k + 1] ELSE "done"

\* the position of the statement the run is at (at's first occurrence)
Position(s, at) == CHOOSE k \in 1..Len(Statements(s)) : Statements(s)[k] = at

Next_pc(s, at) == Follows(s, Position(s, at))

\* phases is a log of first entries
Log(log, phase) ==
    IF \E k \in 1..Len(log) : log[k] = phase THEN log ELSE Append(log, phase)

Raise(e) ==
    /\ pc' = "error"
    /\ err' = e

\* the augmented directory: './augmented_images2' of main1 and old_cnn,
\* './augmented_images' of densenetBackup1; the last component of its path
output_dir(s) ==
    IF s = "densenetBackup1"
    THEN <<"a", "u", "g", "m", "e", "n", "t", "e", "d", "_", "i", "m", "a", "g", "e", "s">>
    ELSE <<"a", "u", "g", "m", "e", "n", "t", "e", "d", "_", "i", "m", "a", "g", "e", "s", "2">>

\* capsnet.py: root_dir
caps_root_dir == "/path/to/images"

\* The spreadsheet of a run: one file name, two listed impressions (labels 1
\* and 13) and one that is not listed.
RunRows ==
    [midas_file_name : {"a.jpg"},
     clinical_impression_1 : {categories[2], categories[13], "15-unlisted"}]

\* The files a run can find in the augmented directory, each a path below it:
\* two outputs of an earlier main1 run, one of an earlier old_cnn run, a file
\* of another dataset, a file that is no image, and an image outside any
\* label directory.
LeftoverFiles ==
    { <<<<"1">>, <<"0", "_", "a", "u", "g", "_", "0", ".", "p", "n", "g">>>>,
      <<<<"1">>, <<"0", "_", "a", "u", "g", "_", "1", ".", "p", "n", "g">>>>,
      <<<<"1">>, <<"0", "_", "o", "r", "i", "g", "i", "n", "a", "l", ".", "p", "n", "g">>>>,
      <<<<"1">>, <<"5", "_", "a", "u", "g", "_", "7", ".", "p", "n", "g">>>>,
      <<<<"1", "3">>, <<"n", "o", "t", "e", "s", ".", "t", "x", "t">>>>,
      <<<<"s", "t", "r", "a", "y", ".", "p", "n", "g">>>> }

\* the directories above the files of F
RECURSIVE ParentsOf(_)
ParentsOf(F) ==
    IF F = {} THEN {}
    ELSE LET p == CHOOSE q \in F : TRUE
         IN  {SubSeq(p, 1, k) : k \in 0..(Len(p) - 1)} \cup ParentsOf(F \ {p})

NoAccuracy == [defined |-> FALSE, correct |-> 0, total |-> 0]

RunInit ==
    /\ script \in Scripts
    /\ xlsx \in BOOLEAN
    /\ data_frame \in SeqsUpTo(RunRows, MaxItems)
    /\ isfile = {<<root_dirs[1], "a.jpg">>, <<caps_root_dir, "a.jpg">>}
    /\ image_paths = <<>>
    /\ data_pc = "new"
    /\ item = [idx |-> -1, label |-> -1]
    /\ fs \in {F \in SUBSET LeftoverFiles : Cardinality(F) <= MaxLeftover}
    /\ script = "capsnet" => fs = {}
    /\ dirs \in {ParentsOf(fs), ParentsOf(fs) \cup {<<>>}}
    /\ script = "capsnet" => dirs = {}
    /\ start = [fs |-> fs, dirs |-> dirs]
    /\ earlier = <<>>
    /\ pc = Statements(script)[1]
    /\ err = "none"
    /\ phases = <<>>
    /\ written = <<>>
    /\ label_to_images = <<>>
    /\ lab_i = 0
    /\ current_count = 0
    /\ for_pos = 0
    /\ target_count = 0
    /\ idx = 0
    /\ num_augmentations = 0
    /\ augmented_paths = <<>>
    /\ train_size = 0
    /\ test_size = 0
    /\ train_dataset = <<>>
    /\ test_dataset = <<>>
    /\ accuracy = NoAccuracy

RunIdle ==
    /\ script = "none"
    /\ xlsx = FALSE
    /\ fs = {}
    /\ dirs = {}
    /\ start = [fs |-> {}, dirs |-> {}]
    /\ earlier = <<>>
    /\ pc = "idle"
    /\ err = "none"
    /\ phases = <<>>
    /\ written = <<>>
    /\ label_to_images = <<>>
    /\ lab_i = 0
    /\ current_count = 0
    /\ for_pos = 0
    /\ target_count = 0
    /\ idx = 0
    /\ num_augmentations = 0
    /\ augmented_paths = <<>>
    /\ train_size = 0
    /\ test_size = 0
    /\ train_dataset = <<>>
    /\ test_dataset = <<>>
    /\ accuracy = NoAccuracy

\* main1.py 24-25, old_cnn.py 26-27: the existence check
CheckExcel ==
    /\ pc = "check"
    /\ IF xlsx
       THEN pc' = Next_pc(script, "check") /\ err' = err
       ELSE Raise("FileNotFoundError")
    /\ UNCHANGED <<script, phases, runEnv, runDisk, augVars, tailVars, dataVars, occlVars, osVars>>

\* main1.py 27, old_cnn.py 29: df = pd.read_excel(excel_file_path)
LoadExcel ==
    /\ pc = "load"
    /\ IF xlsx
       THEN pc' = Next_pc(script, "load") /\ err' = err /\ phases' = Log(phases, "load")
       ELSE Raise("FileNotFoundError") /\ phases' = phases
    /\ UNCHANGED <<script, runEnv, runDisk, augVars, tailVars, dataVars, occlVars, osVars>>

\* capsnet.py ExcelImageDataset.__init__: the rows whose file exists under
\* root_dir, each with its impression (the code keeps the paths and the
\* labels in two parallel lists; the row's path cell is its file name here)
RECURSIVE CapsImagePaths(_, _)
CapsImagePaths(frame, files) ==
    IF frame = <<>> THEN <<>>
    ELSE LET row == frame[Len(frame)]
             img_path == <<caps_root_dir, row.midas_file_name>>
         IN  CapsImagePaths(SubSeq(frame, 1, Len(frame) - 1), files)
                \o (IF img_path \in files
                    THEN << <<img_path, row.clinical_impression_1>> >>
                    ELSE <<>>)

\* dataset = ExcelImageDataset(...): the constructor reads the spreadsheet
\* (pd.read_excel raises FileNotFoundError when it is missing) and collects
\* the image paths
BuildDataset ==
    /\ pc = "dataset"
    /\ IF xlsx
       THEN /\ image_paths' =
                  IF script = "capsnet"
                  THEN CapsImagePaths(data_frame, isfile)
                  ELSE _get_image_paths(data_frame, root_dirs, isfile)
            /\ data_pc' = "built"
            /\ phases' = Log(Log(phases, "load"), "dataset")
            /\ pc' = Next_pc(script, "dataset")
            /\ err' = err
       ELSE /\ Raise("FileNotFoundError")
            /\ UNCHANGED <<image_paths, data_pc, phases>>
    /\ UNCHANGED <<script, runEnv, runDisk, augVars, tailVars, data_frame, isfile, item, occlVars, osVars>>

----------------------------------------------------------------------------
(* Augmentation: save_augmented_images_with_exact_cap of main1.py, one     *)
(* step per loop test and per file saved, and save_augmented_images of     *)
(* old_cnn.py, one step per dataset item.                                  *)

\* the label of dataset[i], as label.item()
ItemLabel(i) == __getitem__(image_paths, i)

\* os.path.join(output_dir, str(label)), below output_dir
label_dir_of(label) == <<str(label)>>

\* len([f for f in os.listdir(label_dir) if f.endswith('.png')])
CountPngListed(files, label_dir) ==
    Cardinality({p \in files : /\ Len(p) = Len(label_dir) + 1
                               /\ SubSeq(p, 1, Len(label_dir)) = label_dir
                               /\ endswith(p[Len(p)], DotPng)})

\* a slip: the files already there are not counted
CountNone(files, label_dir) == 0

CountPng(files, label_dir) == CountPngListed(files, label_dir)

\* main1.py 182-188: label_to_images, a dict in insertion order, after the
\* items 0..n-1 were added: a sequence of [label, images], images the
\* dataset indices of the label in order
RECURSIVE LabelToImagesGrouped(_)
LabelToImagesGrouped(n) ==
    IF n = 0 THEN <<>>
    ELSE LET before == LabelToImagesGrouped(n - 1)
             label == ItemLabel(n - 1)
         IN  IF \E k \in 1..Len(before) : before[k].label = label
             THEN [k \in 1..Len(before) |->
                     IF before[k].label = label
                     THEN [before[k] EXCEPT !.images = Append(@, n - 1)]
                     ELSE before[k]]
             ELSE Append(before, [label |-> label, images |-> <<n - 1>>])

\* a slip: the counter left out of the file name
AugNameNoCount(i, c) == str(i) \o <<"_", "a", "u", "g">> \o DotPng

\* a slip: a label entered before any of its images is seen
LabelToImagesWithEmpty(n) ==
    IF n = 0 THEN <<>>
    ELSE Append(LabelToImagesGrouped(n), [label |-> 0, images |-> <<>>])

LabelToImages(n) == LabelToImagesGrouped(n)

\* f"{idx}_aug_{current_count}.png"
AugNameWithCount(i, c) == str(i) \o <<"_", "a", "u", "g", "_">> \o str(c) \o DotPng

AugName(i, c) == AugNameWithCount(i, c)

\* a slip: the index left out of the name of the original
OriginalNameNoIdx(i) == <<"o", "r", "i", "g", "i", "n", "a", "l", ".", "p", "n", "g">>

\* f"{idx}_original.png"
OriginalNameWithIdx(i) ==
    str(i) \o <<"_", "o", "r", "i", "g", "i", "n", "a", "l", ".", "p", "n", "g">>

OriginalName(i) == OriginalNameWithIdx(i)

\* os.path.join(label_dir, name) for the item i of the label
SavedPath(label, i, name) == label_dir_of(label) \o <<name>>

\* a slip: the image at the counter len(images) saved as it is
IsAugmentedLate(c, n) == c > n

\* main1.py 209: augmentation_transforms(pil_img) if current_count >=
\* len(images) else pil_img
IsAugmentedFrom(c, n) == c >= n

IsAugmented(c, n) == IsAugmentedFrom(c, n)

\* main1.py 178-188: the output directory is made, the items grouped by label
AugBegin ==
    /\ pc = "augment"
    /\ script = "main1"
    /\ \E t \in 1..MaxTarget : target_count' = t
    /\ dirs' = dirs \cup {<<>>}
    /\ label_to_images' = LabelToImages(__len__(image_paths))
    /\ phases' = Log(phases, "augment")
    /\ IF label_to_images' = <<>>
       THEN pc' = Next_pc(script, "augment") /\ lab_i' = lab_i
       ELSE pc' = "aug_label" /\ lab_i' = 1
    /\ UNCHANGED <<script, err, runEnv, fs, written, current_count, for_pos, idx,
                   num_augmentations, tailVars, dataVars, occlVars, osVars>>

\* main1.py 191-198: the label's directory is made, its .png files counted
AugLabel ==
    /\ pc = "aug_label"
    /\ LET label_dir == label_dir_of(label_to_images[lab_i].label)
       IN  /\ dirs' = dirs \cup {label_dir}
           /\ current_count' = CountPng(fs, label_dir)
    /\ pc' = "aug_while"
    /\ UNCHANGED <<script, err, phases, runEnv, fs, written, label_to_images, lab_i,
                   for_pos, target_count, idx, num_augmentations, tailVars, dataVars, occlVars, osVars>>

\* main1.py 201: the test of the while loop; when it fails the next label
\* is taken, or the function returns
AugWhile ==
    /\ pc = "aug_while"
    /\ IF current_count < target_count
       THEN pc' = "aug_for" /\ for_pos' = 1 /\ lab_i' = lab_i
       ELSE /\ for_pos' = for_pos
            /\ IF lab_i < Len(label_to_images)
               THEN pc' = "aug_label" /\ lab_i' = lab_i + 1
               ELSE pc' = Next_pc(script, "augment") /\ lab_i' = lab_i
    /\ UNCHANGED <<script, err, phases, runEnv, runDisk, label_to_images, current_count,
                   target_count, idx, num_augmentations, tailVars, dataVars, occlVars, osVars>>

\* main1.py 202-217: one pass of the for loop that saves a file
AugForWrite ==
    /\ pc = "aug_for"
    /\ for_pos <= Len(label_to_images[lab_i].images)
    /\ current_count < target_count
    /\ LET label == label_to_images[lab_i].label
           images == label_to_images[lab_i].images
           i == images[for_pos]
           augmented == IsAugmented(current_count, Len(images))
           path == SavedPath(label, i, AugName(i, current_count))
       IN  /\ fs' = fs \cup {path}
           /\ written' = Append(written, [path |-> path, idx |-> i, augmented |-> augmented,
                                          counter |-> current_count])
    /\ current_count' = current_count + 1
    /\ for_pos' = for_pos + 1
    /\ UNCHANGED <<runCtl, runEnv, dirs, label_to_images, lab_i, target_count, idx,
                   num_augmentations, tailVars, dataVars, occlVars, osVars>>

\* main1.py 202-205: the for loop ends, exhausted or by break
AugForExit ==
    /\ pc = "aug_for"
    /\ \/ for_pos > Len(label_to_images[lab_i].images)
       \/ current_count >= target_count
    /\ pc' = "aug_while"
    /\ UNCHANGED <<script, err, phases, runEnv, runDisk, augVars, tailVars, dataVars, occlVars, osVars>>

\* old_cnn.py 109-115: the output directory is made
SaveBegin ==
    /\ pc = "augment"
    /\ script = "old_cnn"
    /\ \E k \in 0..MaxAug : num_augmentations' = k
    /\ dirs' = dirs \cup {<<>>}
    /\ idx' = 0
    /\ phases' = Log(phases, "augment")
    /\ pc' = IF __len__(image_paths) = 0 THEN Next_pc(script, "augment") ELSE "save_item"
    /\ UNCHANGED <<script, err, runEnv, fs, written, label_to_images, lab_i, current_count,
                   for_pos, target_count, tailVars, dataVars, occlVars, osVars>>

\* old_cnn.py 125: original_img_path of item i
OriginalPathOf(i) == SavedPath(ItemLabel(i), i, OriginalName(i))

\* old_cnn.py 132: augmented_img_path of item i, augmentation j
AugPathOf(i, j) == SavedPath(ItemLabel(i), i, AugName(i, j))

\* the files of one item: the original, then the augmentations 0..k-1
ItemWrites(i, k) ==
    [j \in 1..(k + 1) |->
        [path |-> IF j = 1 THEN OriginalPathOf(i) ELSE AugPathOf(i, j - 2),
         idx |-> i,
         augmented |-> j > 1,
         counter |-> j - 2]]

\* old_cnn.py 116-133: one pass of the loop over the dataset
SaveItem ==
    /\ pc = "save_item"
    /\ LET w == ItemWrites(idx, num_augmentations)
       IN  /\ dirs' = dirs \cup {label_dir_of(ItemLabel(idx))}
           /\ fs' = fs \cup {w[j].path : j \in 1..Len(w)}
           /\ written' = written \o w
    /\ idx' = idx + 1
    /\ pc' = IF idx + 1 = __len__(image_paths) THEN Next_pc(script, "augment") ELSE "save_item"
    /\ UNCHANGED <<script, err, phases, runEnv, label_to_images, lab_i, current_count,
                   for_pos, target_count, num_augmentations, tailVars, dataVars, occlVars, osVars>>

----------------------------------------------------------------------------
(* AugmentedImageDataset, the split, the loaders, training and testing.    *)

\* os.path.basename(root) of a directory at or below the augmented directory
basename(root) == IF root = <<>> THEN output_dir(script) ELSE root[Len(root)]

\* the files os.walk yields that end with ".png"
PngFiles(files) == {p \in files : endswith(p[Len(p)], DotPng)}

\* os.path.basename(root) of the directory holding the file p
WalkRootName(p) == basename(SubSeq(p, 1, Len(p) - 1))

\* int(os.path.basename(root))
WalkLabel(p) == int(WalkRootName(p))

\* a slip: the label read from the last character of the directory name
WalkLabelLastChar(p) == int(SubSeq(WalkRootName(p), Len(WalkRootName(p)), Len(WalkRootName(p))))

LabelOfFile(p) == WalkLabel(p)

\* a slip: every file taken, whatever its name ends with
AllEntries(files) == {<<p, LabelOfFile(p)>> : p \in files}

\* the (img_path, label) pairs _get_augmented_paths collects
PngEntries(files) == {<<p, LabelOfFile(p)>> : p \in PngFiles(files)}

AugmentedEntries(files) == PngEntries(files)

RECURSIVE SetToSeq(_)
SetToSeq(S) ==
    IF S = {} THEN <<>>
    ELSE LET x == CHOOSE y \in S : TRUE
         IN  <<x>> \o SetToSeq(S \ {x})

Reverse(s) == [k \in 1..Len(s) |-> s[Len(s) + 1 - k]]

\* The order in which os.walk lists directories and files is the file
\* system's; the model draws it from one enumeration and its reverse.
WalkOrders(S) == {SetToSeq(S), Reverse(SetToSeq(S))}

\* AugmentedImageDataset.__init__ -> _get_augmented_paths: int() raises
\* ValueError for a .png file in a directory whose name is no integer
BuildAugmented ==
    /\ pc = "aug_dataset"
    /\ IF \E p \in PngFiles(fs) : ~IsIntLiteral(WalkRootName(p))
       THEN Raise("ValueError: invalid literal for int()") /\ augmented_paths' = augmented_paths
       ELSE /\ \E order \in WalkOrders(AugmentedEntries(fs)) : augmented_paths' = order
            /\ pc' = Next_pc(script, "aug_dataset")
            /\ err' = err
    /\ UNCHANGED <<script, phases, runEnv, runDisk, augVars, train_size, test_size,
                   train_dataset, test_dataset, accuracy, dataVars, occlVars, osVars>>

\* main1.py 164-166: count_images_per_label over the (img_path, label)
\* entries of an AugmentedImageDataset: category name -> number of items
count_images_per_label(entries) ==
    LET names == {categories[entries[k][2] + 1] : k \in 1..Len(entries)}
    IN  [c \in names |->
            Cardinality({k \in 1..Len(entries) : categories[entries[k][2] + 1] = c})]

\* AugmentedImageDataset.__len__: densenetBackup1.py 99-100 (and main1.py),
\* old_cnn.py 162-163
AugmentedLen ==
    IF script = "old_cnn"
    THEN __len__(image_paths) + Len(augmented_paths)
    ELSE Len(augmented_paths)

\* the subsets of S of at most n elements
RECURSIVE SubsetsUpTo(_, _)
SubsetsUpTo(S, n) ==
    IF n = 0 THEN {{}}
    ELSE LET smaller == SubsetsUpTo(S, n - 1)
         IN  smaller \cup {U \cup {x} : U \in smaller, x \in S}

\* main1.py 245-250, densenetBackup1.py 102-107:
\* AugmentedImageDataset.__getitem__, the file it opens and the label
AugmentedGetItemFiles(i) ==
    [image |-> augmented_paths[i + 1][1], label |-> augmented_paths[i + 1][2]]

\* old_cnn.py 165-173: AugmentedImageDataset.__getitem__ of the combined
\* dataset: the item of the original dataset below len(original_dataset),
\* the file of augmented_paths from there on
AugmentedGetItemCombined(i) ==
    IF i < __len__(image_paths)
    THEN [image |-> image_paths[i + 1][1], label |-> __getitem__(image_paths, i)]
    ELSE AugmentedGetItemFiles(i - __len__(image_paths))

\* a slip: the combined dataset given the __getitem__ of the other scripts
AugmentedGetItemNoOriginals(i) == AugmentedGetItemFiles(i)

AugmentedGetItem(i) == AugmentedGetItemCombined(i)

\* a slip: 0.8 * n rounded to the nearest integer
TrainSizeRounded(n) == (8 * n + 5) \div 10

\* int(0.8 * n): 0.8 * n in double precision, truncated; for the sizes of
\* the model the product is not below the exact 8n/10
TrainSizeTruncated(n) == (8 * n) \div 10

TrainSize(n) == TrainSizeTruncated(n)

TestSize(n) == n - TrainSize(n)

\* torch.randperm(n): the permutations the model draws from are the
\* rotations of 0..n-1
randperm(n) == {[k \in 1..n |-> (k - 1 + r) % n] : r \in 0..(n - 1)} \cup {<<>>}

\* a slip: the second subset starts one index early
RandomSplitOverlapping(n, a, b) ==
    {<<SubSeq(perm, 1, a), SubSeq(perm, IF a = 0 THEN 1 ELSE a, n)>> :
        perm \in {q \in randperm(n) : Len(q) = n}}

\* random_split(dataset, [a, b]) with a + b = len(dataset) = n: the first a
\* indices of a random permutation are the first subset, the next b the
\* second
RandomSplitByLengths(n, a, b) ==
    {<<SubSeq(perm, 1, a), SubSeq(perm, a + 1, a + b)>> :
        perm \in {q \in randperm(n) : Len(q) = n}}

random_split(n, a, b) == RandomSplitByLengths(n, a, b)

\* densenetBackup1.py 114-116, old_cnn.py 182-184: the sizes and the random
\* split
Split ==
    /\ pc = "split"
    /\ train_size' = TrainSize(AugmentedLen)
    /\ test_size' = TestSize(AugmentedLen)
    /\ \E subsets \in random_split(AugmentedLen, train_size', test_size') :
          /\ train_dataset' = subsets[1]
          /\ test_dataset' = subsets[2]
    /\ pc' = Next_pc(script, "split")
    /\ UNCHANGED <<script, err, phases, runEnv, runDisk, augVars, augmented_paths,
                   accuracy, dataVars, occlVars, osVars>>

\* the number of items behind the shuffled loader
TrainItems == IF script = "capsnet" THEN __len__(image_paths) ELSE train_size

\* DataLoader(..., shuffle=True) and DataLoader(..., shuffle=False)
LoadersBuilt ==
    /\ pc = "loaders"
    /\ pc' = Next_pc(script, "loaders")
    /\ UNCHANGED <<script, err, phases, runEnv, runDisk, augVars, tailVars, dataVars, occlVars, osVars>>

\* DataLoader(..., shuffle=True) over no items: RandomSampler raises
\* ValueError (num_samples=0) in the library releases that check it; the
\* release is not fixed by the repository, so both outcomes are kept
LoadersRaise ==
    /\ pc = "loaders"
    /\ TrainItems = 0
    /\ Raise("ValueError: num_samples should be a positive integer value")
    /\ UNCHANGED <<script, phases, runEnv, runDisk, augVars, tailVars, dataVars, occlVars, osVars>>

batch_size_densenet == 4

batch_size_old_cnn == 16

\* total after the loop over a loader of n items: the batch lengths summed
RECURSIVE BatchTotal(_, _)
BatchTotal(n, b) ==
    IF n = 0 THEN 0
    ELSE LET size == IF n < b THEN n ELSE b
         IN  size + BatchTotal(n - size, b)

\* len(loader)
RECURSIVE BatchCount(_, _)
BatchCount(n, b) ==
    IF n = 0 THEN 0
    ELSE 1 + BatchCount(IF n < b THEN 0 ELSE n - b, b)

\* correct / total: ZeroDivisionError when total is 0, else the quotient
\* with correct any count of matching predictions
Measure(total) ==
    IF total = 0
    THEN Raise("ZeroDivisionError") /\ accuracy' = accuracy
    ELSE /\ \E correct \in 0..total :
               accuracy' = [defined |-> TRUE, correct |-> correct, total |-> total]
         /\ err' = err

\* densenetBackup1.py 131-166: the Optuna trial: one epoch of training, then
\* accuracy = correct / total over test_loader
Objective ==
    /\ pc = "objective"
    /\ phases' = Log(phases, "train")
    /\ Measure(BatchTotal(test_size, batch_size_densenet))
    /\ BatchTotal(test_size, batch_size_densenet) > 0 => pc' = Next_pc(script, "objective")
    /\ UNCHANGED <<script, runEnv, runDisk, augVars, augmented_paths, train_size,
                   test_size, train_dataset, test_dataset, dataVars, occlVars, osVars>>

\* the training loop: capsnet.py 133-153, densenetBackup1.py 177-195,
\* old_cnn.py 230-245 (whose epoch log divides by len(train_loader))
Train ==
    /\ pc = "train"
    /\ phases' = Log(phases, "train")
    /\ IF script = "old_cnn" /\ BatchCount(train_size, batch_size_old_cnn) = 0
       THEN Raise("ZeroDivisionError")
       ELSE pc' = Next_pc(script, "train") /\ err' = err
    /\ UNCHANGED <<script, runEnv, runDisk, augVars, tailVars, dataVars, occlVars, osVars>>

\* capsnet.py 143: the forward pass of a batch raises RuntimeError where the
\* routing weights (num_routes = 32 * 6 * 6) do not fit the capsules of the
\* 128 x 128 input, or the device is missing
TrainRaise ==
    /\ pc = "train"
    /\ script = "capsnet"
    /\ __len__(image_paths) > 0
    /\ phases' = Log(phases, "train")
    /\ Raise("RuntimeError")
    /\ UNCHANGED <<script, runEnv, runDisk, augVars, tailVars, dataVars, occlVars, osVars>>

\* old_cnn.py 248-262: test_model
TestModel ==
    /\ pc = "test"
    /\ Measure(BatchTotal(test_size, batch_size_old_cnn))
    /\ BatchTotal(test_size, batch_size_old_cnn) > 0 => pc' = Next_pc(script, "test")
    /\ UNCHANGED <<script, phases, runEnv, runDisk, augVars, augmented_paths, train_size,
                   test_size, train_dataset, test_dataset, dataVars, occlVars, osVars>>

\* densenetBackup1.py 197-227: predictions collected, metrics printed
Evaluate ==
    /\ pc = "evaluate"
    /\ pc' = Next_pc(script, "evaluate")
    /\ UNCHANGED <<script, err, phases, runEnv, runDisk, augVars, tailVars, dataVars, occlVars, osVars>>

\* old_cnn.py 300-304: test_dataset[0] raises IndexError on an empty subset
Occlusion ==
    /\ pc = "occlusion"
    /\ IF test_size = 0
       THEN Raise("IndexError")
       ELSE pc' = Next_pc(script, "occlusion") /\ err' = err
    /\ UNCHANGED <<script, phases, runEnv, runDisk, augVars, tailVars, dataVars, occlVars, osVars>>

\* main1.py 222, old_cnn.py 142: the call made a second time once it has
\* returned, with the same dataset, on the output directory as the first
\* call left it; the locals of the function are fresh
CallAgain ==
    /\ script \in {"main1", "old_cnn"}
    /\ pc = Next_pc(script, "augment")
    /\ earlier = <<>>
    /\ earlier' = Append(earlier, [start |-> start, written |-> written,
                                   target_count |-> target_count,
                                   num_augmentations |-> num_augmentations])
    /\ start' = [fs |-> fs, dirs |-> dirs]
    /\ pc' = "augment"
    /\ written' = <<>>
    /\ label_to_images' = <<>>
    /\ lab_i' = 0
    /\ current_count' = 0
    /\ for_pos' = 0
    /\ target_count' = 0
    /\ idx' = 0
    /\ num_augmentations' = 0
    /\ UNCHANGED <<script, err, phases, xlsx, fs, dirs, tailVars, dataVars, occlVars, osVars>>

RunNext ==
    \/ CheckExcel
    \/ LoadExcel
    \/ BuildDataset
    \/ AugBegin
    \/ AugLabel
    \/ AugWhile
    \/ AugForWrite
    \/ AugForExit
    \/ SaveBegin
    \/ SaveItem
    \/ BuildAugmented
    \/ Split
    \/ LoadersBuilt
    \/ LoadersRaise
    \/ Objective
    \/ Train
    \/ TrainRaise
    \/ TestModel
    \/ Evaluate
    \/ Occlusion

----------------------------------------------------------------------------
(* densenetBackup1.py 282-347: the loop that saves a sensitivity map for   *)
(* each listed image, and the git commands after it.  A file name is       *)
(* [stem, ext]; a file is <<directory, name>>.                             *)

osdes_output_dir == "/root/stanfordData4321/OSDES"

\* image_paths of densenetBackup1.py 291-320
sensitivity_image_paths ==
    <<
       [dir |-> "/root/stanfordData4321/clusters/cluster_0", stem |-> "img_0_31", ext |-> ".png"],
       [dir |-> "/root/stanfordData4321/clusters/cluster_0", stem |-> "img_1_6", ext |-> ".png"],
       [dir |-> "/root/stanfordData4321/clusters/cluster_1", stem |-> "img_0_13", ext |-> ".png"],
       [dir |-> "/root/stanfordData4321/clusters/cluster_1", stem |-> "img_1_5", ext |-> ".png"],
       [dir |-> "/root/stanfordData4321/clusters/cluster_2", stem |-> "img_0_27", ext |-> ".png"],
       [dir |-> "/root/stanfordData4321/clusters/cluster_2", stem |-> "img_1_4", ext |-> ".png"],
       [dir |-> "/root/stanfordData4321/clusters/cluster_3", stem |-> "img_0_11", ext |-> ".png"],
       [dir |-> "/root/stanfordData4321/clusters/cluster_3", stem |-> "img_0_22", ext |-> ".png"],
       [dir |-> "/root/stanfordData4321/clusters/cluster_4", stem |-> "img_0_6", ext |-> ".png"],
       [dir |-> "/root/stanfordData4321/clusters/cluster_4", stem |-> "img_0_18", ext |-> ".png"],
       [dir |-> "/root/stanfordData4321/clusters/cluster_5", stem |-> "img_0_7", ext |-> ".png"],
       [dir |-> "/root/stanfordData4321/clusters/cluster_5", stem |-> "img_0_16", ext |-> ".png"],
       [dir |-> "/root/stanfordData4321/clusters/cluster_6", stem |-> "img_0_21", ext |-> ".png"],
       [dir |-> "/root/stanfordData4321/clusters/cluster_6", stem |-> "img_0_23", ext |-> ".png"],
       [dir |-> "/root/stanfordData4321/clusters/cluster_7", stem |-> "img_0_0", ext |-> ".png"],
       [dir |-> "/root/stanfordData4321/clusters/cluster_7", stem |-> "img_0_1", ext |-> ".png"],
       [dir |-> "/root/stanfordData4321/clusters/cluster_8", stem |-> "img_1_0", ext |-> ".png"],
       [dir |-> "/root/stanfordData4321/clusters/cluster_8", stem |-> "img_1_1", ext |-> ".png"],
       [dir |-> "/root/stanfordData4321/clusters/cluster_9", stem |-> "img_0_14", ext |-> ".png"],
       [dir |-> "/root/stanfordData4321/clusters/cluster_9", stem |-> "img_0_15", ext |-> ".png"],
       [dir |-> "/root/stanfordData4321/clusters/cluster_10", stem |-> "img_0_4", ext |-> ".png"],
       [dir |-> "/root/stanfordData4321/clusters/cluster_10", stem |-> "img_0_12", ext |-> ".png"],
       [dir |-> "/root/stanfordData4321/clusters/cluster_11", stem |-> "img_0_2", ext |-> ".png"],
       [dir |-> "/root/stanfordData4321/clusters/cluster_11", stem |-> "img_0_17", ext |-> ".png"],
       [dir |-> "/root/stanfordData4321/clusters/cluster_12", stem |-> "img_1_19", ext |-> ".png"],
       [dir |-> "/root/stanfordData4321/clusters/cluster_12", stem |-> "img_2_8", ext |-> ".png"],
       [dir |-> "/root/stanfordData4321/clusters/cluster_13", stem |-> "img_0_3", ext |-> ".png"],
       [dir |-> "/root/stanfordData4321/clusters/cluster_13", stem |-> "img_3_5", ext |-> ".png"]
    >>

\* name.replace('.jpg', '_sensitivity.png') of a base name
ReplaceJpg(name) ==
    IF name.ext = ".jpg" THEN [stem |-> name.stem, ext |-> "_sensitivity.png"] ELSE name

\* the directory of result_path
ResultDir == "./OS"

\* os.path.join('./OS', os.path.basename(img_path).replace(...))
result_path(img_path) ==
    <<ResultDir, ReplaceJpg([stem |-> img_path.stem, ext |-> img_path.ext])>>

NoLine == [kind |-> "none", at |-> 0, path |-> <<>>]

OSInit ==
    /\ os_pc = "makedirs"
    /\ os_i = 1
    /\ os_unreadable \in
          SubsetsUpTo(1..Len(sensitivity_image_paths), MaxFailures)
             \cup {1..Len(sensitivity_image_paths)}
    /\ os_dirs \in {{}, {"./OS"}}
    /\ os_made = {}
    /\ os_files = {}
    /\ os_attempted = <<>>
    /\ os_last = NoLine
    /\ os_saved = 0
    /\ os_errors = 0
    /\ git = <<>>

OSIdle ==
    /\ os_pc = "idle"
    /\ os_i = 0
    /\ os_unreadable = {}
    /\ os_dirs = {}
    /\ os_made = {}
    /\ os_files = {}
    /\ os_attempted = <<>>
    /\ os_last = NoLine
    /\ os_saved = 0
    /\ os_errors = 0
    /\ git = <<>>

AfterImage == IF os_i = Len(sensitivity_image_paths) THEN "git_add" ELSE "loop"

\* densenetBackup1.py 287-288: os.makedirs(output_dir, exist_ok=True)
OSMakeOutputDir ==
    /\ os_pc = "makedirs"
    /\ os_dirs' = os_dirs \cup {osdes_output_dir}
    /\ os_made' = os_made \cup {osdes_output_dir}
    /\ os_pc' = "loop"
    /\ UNCHANGED <<os_i, os_unreadable, os_files, os_attempted, os_last, os_saved,
                   os_errors, git, dataVars, runVars, occlVars>>

\* a slip: no try around the loop body, the exception ends the script
OSImageFailsUncaught ==
    /\ os_pc = "loop"
    /\ os_i \in os_unreadable
    /\ os_attempted' = Append(os_attempted, sensitivity_image_paths[os_i])
    /\ os_pc' = "error"
    /\ UNCHANGED <<os_i, os_unreadable, os_dirs, os_made, os_files, os_last, os_saved,
                   os_errors, git, dataVars, runVars, occlVars>>

\* densenetBackup1.py 322-342: the loop body raises (the image cannot be
\* opened, the model fails): the exception is caught and printed
OSImageFailsCaught ==
    /\ os_pc = "loop"
    /\ os_i \in os_unreadable
    /\ os_attempted' = Append(os_attempted, sensitivity_image_paths[os_i])
    /\ os_last' = [kind |-> "error", at |-> os_i, path |-> <<>>]
    /\ os_errors' = os_errors + 1
    /\ os_i' = os_i + 1
    /\ os_pc' = AfterImage
    /\ UNCHANGED <<os_unreadable, os_dirs, os_made, os_files, os_saved, git,
                   dataVars, runVars, occlVars>>

OSImageFails == OSImageFailsCaught

\* densenetBackup1.py 322-339: the map is computed; './OSDES' is made;
\* cv2.imwrite writes result_path, or returns False without raising when
\* the directory of result_path does not exist; the line is printed
OSImageSaved ==
    /\ os_pc = "loop"
    /\ os_i \notin os_unreadable
    /\ os_attempted' = Append(os_attempted, sensitivity_image_paths[os_i])
    /\ os_dirs' = os_dirs \cup {"./OSDES"}
    /\ os_made' = os_made \cup {"./OSDES"}
    /\ LET path == result_path(sensitivity_image_paths[os_i])
       IN  /\ os_files' = IF path[1] \in os_dirs' THEN os_files \cup {path} ELSE os_files
           /\ os_last' = [kind |-> "saved", at |-> os_i, path |-> path]
    /\ os_saved' = os_saved + 1
    /\ os_i' = os_i + 1
    /\ os_pc' = AfterImage
    /\ UNCHANGED <<os_unreadable, os_errors, git, dataVars, runVars, occlVars>>

\* densenetBackup1.py 345-347: os.system returns the exit status of the
\* command and does not raise on failure
GitAdd ==
    /\ os_pc = "git_add"
    /\ git' = Append(git, "git add ./OS/*")
    /\ os_pc' = "git_commit"
    /\ UNCHANGED <<os_i, os_unreadable, os_dirs, os_made, os_files, os_attempted, os_last,
                   os_saved, os_errors, dataVars, runVars, occlVars>>

GitCommit ==
    /\ os_pc = "git_commit"
    /\ git' = Append(git, "git commit -m 'Added updated sensitivity maps'")
    /\ os_pc' = "git_push"
    /\ UNCHANGED <<os_i, os_unreadable, os_dirs, os_made, os_files, os_attempted, os_last,
                   os_saved, os_errors, dataVars, runVars, occlVars>>

GitPush ==
    /\ os_pc = "git_push"
    /\ git' = Append(git, "git push")
    /\ os_pc' = "done"
    /\ UNCHANGED <<os_i, os_unreadable, os_dirs, os_made, os_files, os_attempted, os_last,
                   os_saved, os_errors, dataVars, runVars, occlVars>>

OSNext ==
    \/ OSMakeOutputDir
    \/ OSImageFails
    \/ OSImageSaved
    \/ GitAdd
    \/ GitCommit
    \/ GitPush

----------------------------------------------------------------------------
(* The specifications. *)

DataStart == DataInit /\ RunIdle /\ OcclIdle /\ OSIdle

SpecData == DataStart /\ [][DataNext]_vars

RunStart == RunInit /\ OcclIdle /\ OSIdle

Spec == RunStart /\ [][RunNext]_vars

\* save_augmented_images_with_exact_cap (main1.py 222) or
\* save_augmented_images (old_cnn.py 142) alone, called on the dataset of
\* some spreadsheet and an output directory in some state
CallInit ==
    /\ script \in {"main1", "old_cnn"}
    /\ xlsx = TRUE
    /\ data_frame \in SeqsUpTo(RunRows, MaxItems)
    /\ isfile = {<<root_dirs[1], "a.jpg">>, <<caps_root_dir, "a.jpg">>}
    /\ image_paths = _get_image_paths(data_frame, root_dirs, isfile)
    /\ data_pc = "built"
    /\ item = [idx |-> -1, label |-> -1]
    /\ fs \in {F \in SUBSET LeftoverFiles : Cardinality(F) <= MaxLeftover}
    /\ dirs \in {ParentsOf(fs), ParentsOf(fs) \cup {<<>>}}
    /\ start = [fs |-> fs, dirs |-> dirs]
    /\ earlier = <<>>
    /\ pc = "augment"
    /\ err = "none"
    /\ phases = <<"load", "dataset">>
    /\ written = <<>>
    /\ label_to_images = <<>>
    /\ lab_i = 0
    /\ current_count = 0
    /\ for_pos = 0
    /\ target_count = 0
    /\ idx = 0
    /\ num_augmentations = 0
    /\ augmented_paths = <<>>
    /\ train_size = 0
    /\ test_size = 0
    /\ train_dataset = <<>>
    /\ test_dataset = <<>>
    /\ accuracy = NoAccuracy

\* the function called, and called again when it has returned
AgainStart == CallInit /\ OcclIdle /\ OSIdle

AgainNext ==
    \/ AugBegin
    \/ AugLabel
    \/ AugWhile
    \/ AugForWrite
    \/ AugForExit
    \/ SaveBegin
    \/ SaveItem
    \/ CallAgain

SpecAgain == AgainStart /\ [][AgainNext]_vars

\* save_augmented_images_with_exact_cap called once.  The call is not
\* stopped from outside: the interpreter goes on to the next statement as
\* long as there is one.
CapStart == CallInit /\ script = "main1" /\ OcclIdle /\ OSIdle

CapNext ==
    \/ AugBegin
    \/ AugLabel
    \/ AugWhile
    \/ AugForWrite
    \/ AugForExit

SpecCap == CapStart /\ [][CapNext]_vars /\ WF_vars(CapNext)

OcclStart0 == OcclInit /\ DataIdle /\ RunIdle /\ OSIdle

SpecOccl == OcclStart0 /\ [][OcclNext]_vars

ComputeStart == ComputeInit /\ DataIdle /\ RunIdle /\ OSIdle

SpecCompute == ComputeStart /\ [][ComputeNext]_vars

OSStart == OSInit /\ DataIdle /\ RunIdle /\ OcclIdle

SpecOS == OSStart /\ [][OSNext]_vars

----------------------------------------------------------------------------
(* Claims about a script run (Spec).                                       *)

\* the phases each script's statements go through
Plan(s) ==
    CASE s = "main1" -> <<"load", "dataset", "augment">>
      [] s = "old_cnn" -> <<"load", "dataset", "augment", "train">>
      [] s = "densenetBackup1" -> <<"load", "dataset", "train">>
      [] s = "capsnet" -> <<"load", "dataset", "train">>

\* C1 as stated: every script that runs to completion has gone through load,
\* dataset, augment and train, in this order.
C1_EveryScriptAugmentsAndTrains ==
    pc = "done" => phases = <<"load", "dataset", "augment", "train">>

\* C1 amended: the phases of a run are entered in the order load, dataset,
\* augment, train, but only old_cnn has all four: main1 never trains, and
\* capsnet and densenetBackup1 never augment; a completed run has entered
\* exactly the phases of its script.
C1_PhasesOfEachScript ==
    /\ Len(phases) <= Len(Plan(script))
    /\ phases = SubSeq(Plan(script), 1, Len(phases))
    /\ pc = "done" => phases = Plan(script)

\* old_cnn ran to completion, having saved files and measured an accuracy
C1_Witness ==
    /\ script = "old_cnn"
    /\ pc = "done"
    /\ written # <<>>
    /\ accuracy.defined
    /\ phases = <<"load", "dataset", "augment", "train">>

\* C4: when the spreadsheet is missing, main1 and old_cnn stop at the
\* existence check with FileNotFoundError: no dataset is constructed, no
\* directory is made and no file is saved.
C4_MissingSpreadsheetStopsTheRun ==
    (script \in {"main1", "old_cnn"} /\ ~xlsx) =>
        /\ pc \in {"check", "error"}
        /\ pc = "error" => err = "FileNotFoundError"
        /\ data_pc = "new"
        /\ image_paths = <<>>
        /\ dirs = start.dirs
        /\ fs = start.fs
        /\ written = <<>>

\* main1 stopped at the check, and the output directory still does not exist
C4_Witness ==
    /\ script = "main1"
    /\ ~xlsx
    /\ pc = "error"
    /\ err = "FileNotFoundError"
    /\ <<>> \notin dirs

\* the run is past AugmentedImageDataset(...), which did not raise
AugmentedBuilt ==
    /\ script \in {"main1", "old_cnn"}
    /\ \/ pc \in {"split", "loaders", "train", "test", "occlusion", "done"}
       \/ pc = "error" /\ err \notin {"FileNotFoundError", "ValueError: invalid literal for int()"}

\* the paths AugmentedImageDataset read
PathsRead == {augmented_paths[e][1] : e \in 1..Len(augmented_paths)}

PathsWritten == {written[k].path : k \in 1..Len(written)}

\* C5: starting from an empty output directory, every file saved for item
\* idx lies in the directory named str(label of idx), and the augmented
\* dataset lists that file with the integer label of idx.
C5_LabelSurvivesTheDisk ==
    (AugmentedBuilt /\ start.fs = {}) =>
        \A k \in 1..Len(written) :
            LET w == written[k]
            IN  /\ Len(w.path) = 2
                /\ w.path[1] = str(ItemLabel(w.idx))
                /\ \E e \in 1..Len(augmented_paths) :
                      augmented_paths[e] = <<w.path, ItemLabel(w.idx)>>

\* files of the labels 1 and 12 were saved and read back
C5_Witness ==
    /\ AugmentedBuilt
    /\ start.fs = {}
    /\ \E j, k \in 1..Len(written) :
          /\ ItemLabel(written[j].idx) = 1
          /\ ItemLabel(written[k].idx) = 12
          /\ written[k].augmented

\* what a run saves into an empty directory, from the dataset and the
\* function's argument alone
CleanRunFiles ==
    IF script = "main1"
    THEN UNION { LET lab == LabelToImages(__len__(image_paths))[g]
                 IN  { SavedPath(lab.label, lab.images[(c % Len(lab.images)) + 1],
                                 AugName(lab.images[(c % Len(lab.images)) + 1], c)) :
                         c \in 0..(target_count - 1) } :
                 g \in 1..Len(LabelToImages(__len__(image_paths))) }
    ELSE UNION { {OriginalPathOf(i)} \cup {AugPathOf(i, j) : j \in 0..(num_augmentations - 1)} :
                 i \in 0..(__len__(image_paths) - 1) }

\* C7 as stated: the .png files the augmented dataset reads are those of a
\* run on an empty directory, whatever the directory held before.
C7_RecreatedOnEachRun ==
    AugmentedBuilt => PathsRead = CleanRunFiles

\* C7 amended: nothing in the output directory is deleted; the augmented
\* dataset reads the .png files the run found there together with the files
\* the run saved, and only when the run found no .png file are its contents
\* those of a run on an empty directory.
C7_LeftoversAreReadToo ==
    /\ start.fs \subseteq fs
    /\ AugmentedBuilt =>
          /\ PathsRead = PngFiles(start.fs) \cup PathsWritten
          /\ PngFiles(start.fs) = {} => PathsRead = CleanRunFiles

\* a run that saved files read a file of an earlier run as well
C7_Witness ==
    /\ AugmentedBuilt
    /\ written # <<>>
    /\ PngFiles(start.fs) # {}
    /\ ~(PngFiles(start.fs) \subseteq PathsWritten)
    /\ PathsRead # CleanRunFiles

\* the run reached the accuracy computation, or an exception after the split
\* kept it from doing so
PastSplit ==
    /\ script \in {"densenetBackup1", "old_cnn"}
    /\ \/ pc = "done"
       \/ pc = "error" /\ err \notin {"FileNotFoundError", "ValueError: invalid literal for int()"}

\* C10 as stated: for every size of the augmented dataset, also 0, the
\* accuracy is defined and is correct / total, 0 <= correct <= total, total
\* the size of the test subset.
C10_AccuracyAlwaysDefined ==
    PastSplit =>
        /\ accuracy.defined
        /\ accuracy.total = test_size
        /\ accuracy.correct \in 0..accuracy.total

----------------------------------------------------------------------------
(* What the spreadsheet and the directories say, stated without the loop.  *)

InSomeDir(r) == \E k \in 1..Len(root_dirs) : <<root_dirs[k], data_frame[r].midas_file_name>> \in isfile

FirstDir(r) ==
    CHOOSE k \in 1..Len(root_dirs) :
        /\ <<root_dirs[k], data_frame[r].midas_file_name>> \in isfile
        /\ \A j \in 1..(k - 1) : <<root_dirs[j], data_frame[r].midas_file_name>> \notin isfile

Listed(r) == \E k \in 1..Len(categories) : categories[k] = data_frame[r].clinical_impression_1

Contributes(r) == InSomeDir(r) /\ Listed(r)

\* the row of the e-th entry: the e-th contributing row
RowOf(e) ==
    CHOOSE r \in 1..Len(data_frame) :
        /\ Contributes(r)
        /\ Cardinality({q \in 1..r : Contributes(q)}) = e

\* C2: every label __getitem__ returns is an index into categories, and the
\* category at that index is the clinical_impression_1 of the row the entry
\* came from; -1 is never returned.
C2_LabelIsCategoryIndex ==
    data_pc = "got" =>
        /\ item.label \in 0..(Len(categories) - 1)
        /\ categories[item.label + 1] = data_frame[RowOf(item.idx + 1)].clinical_impression_1
        /\ item.label # -1

\* a label was returned for a row that follows a row with an unlisted label
C2_Witness ==
    /\ data_pc = "got"
    /\ item.idx = 0
    /\ RowOf(1) = 2
    /\ ~Listed(1) /\ InSomeDir(1)
    /\ item.label = 11

\* C3: the entries are the contributing rows in row order, one entry each,
\* each with the path in the first root directory that holds the file; rows
\* with no file or an unlisted label have no entry.
C3_PathsAreFirstMatches ==
    data_pc \in {"built", "got"} =>
        /\ Len(image_paths) = Cardinality({r \in 1..Len(data_frame) : Contributes(r)})
        /\ \A e \in 1..Len(image_paths) :
              LET r == RowOf(e)
              IN  image_paths[e] =
                     << <<root_dirs[FirstDir(r)], data_frame[r].midas_file_name>>,
                        data_frame[r].clinical_impression_1 >>

\* a file present in two root directories, and a row left out
C3_Witness ==
    /\ data_pc = "built"
    /\ Len(data_frame) = 2
    /\ Len(image_paths) = 1
    /\ \E r \in 1..2 :
          /\ Contributes(r)
          /\ FirstDir(r) = 2
          /\ <<root_dirs[4], data_frame[r].midas_file_name>> \in isfile

----------------------------------------------------------------------------
(* Claims about the sensitivity-map loop (SpecOS).                         *)

\* C8: an exception in the loop body is caught and printed and the loop
\* goes on: the images are attempted in list order, every failure prints its
\* line, no exception ends the script, and after all 28 images the three git
\* commands run, however many images failed.
C8_LoopSurvivesFailures ==
    /\ os_pc # "error"
    /\ Len(sensitivity_image_paths) = 28
    /\ os_attempted = SubSeq(sensitivity_image_paths, 1, Len(os_attempted))
    /\ os_errors = Cardinality({k \in os_unreadable : k <= Len(os_attempted)})
    /\ os_saved + os_errors = Len(os_attempted)
    /\ git # <<>> => Len(os_attempted) = 28
    /\ os_pc = "done" =>
          /\ Len(os_attempted) = 28
          /\ git = <<"git add ./OS/*", "git commit -m 'Added updated sensitivity maps'",
                     "git push">>

\* every image failed and the git commands ran all the same
C8_Witness ==
    /\ os_pc = "done"
    /\ os_errors = 28
    /\ os_saved = 0
    /\ Len(git) = 3

\* C9 as stated: when 'Sensitivity map saved ... at <result_path>' is
\* printed, the directory of result_path is one the script made sure of with
\* os.makedirs, and the map is on disk at result_path.
C9_SavedMapIsOnDisk ==
    os_last.kind = "saved" =>
        /\ os_last.path[1] \in os_made
        /\ os_last.path \in os_files

----------------------------------------------------------------------------
(* Claims about save_augmented_images_with_exact_cap (main1.py).            *)

\* the run is main1's and the call of the function has returned
CapReturned == script = "main1" /\ pc \in {"aug_dataset", "done"} /\ err = "none"

\* the labels that occur in the dataset
DatasetLabels == {label_to_images[k].label : k \in 1..Len(label_to_images)}

\* the writes of the run into the directory of a label, in order
RECURSIVE WritesInto(_, _)
WritesInto(log, label) ==
    IF log = <<>> THEN <<>>
    ELSE LET w == log[Len(log)]
             before == WritesInto(SubSeq(log, 1, Len(log) - 1), label)
         IN  IF SubSeq(w.path, 1, Len(w.path) - 1) = label_dir_of(label)
             THEN Append(before, w)
             ELSE before

PairwiseDistinctPaths(log) ==
    \A a, b \in 1..Len(log) : a # b => log[a].path # log[b].path

\* C11: from an empty or absent output directory, when the function has
\* returned the directory of every label of the dataset holds exactly
\* target_count .png files, written under pairwise distinct names, and
\* count_images_per_label on the AugmentedImageDataset built from it reports
\* target_count for the label.
C11_BalancedFromEmpty ==
    (CapReturned /\ start.fs = {}) =>
        \A label \in DatasetLabels :
            /\ CountPng(fs, label_dir_of(label)) = target_count
            /\ Len(WritesInto(written, label)) = target_count
            /\ PairwiseDistinctPaths(WritesInto(written, label))
            /\ pc = "done" =>
                  count_images_per_label(augmented_paths)[categories[label + 1]] = target_count

\* a label whose images are fewer or more than target_count was filled from
\* nothing and counted
C11_Witness ==
    /\ CapReturned
    /\ pc = "done"
    /\ start.fs = {}
    /\ \E k \in 1..Len(label_to_images) :
          /\ Len(label_to_images[k].images) # target_count
          /\ count_images_per_label(augmented_paths)[categories[label_to_images[k].label + 1]]
                = target_count

\* C12 as stated: whatever the output directory held before the call, when
\* the function has returned the directory of every label of the dataset
\* holds exactly target_count .png files.
C12_ExactCapForAnyContents ==
    CapReturned =>
        \A label \in DatasetLabels : CountPng(fs, label_dir_of(label)) = target_count

\* C13: the function always terminates: the image list of every label is
\* non-empty, the writes into a label directory are never more than
\* target_count, and a run that has reached the call reaches the statement
\* after it.
C13_CapTerminates ==
    /\ [](script = "main1" =>
            \A k \in 1..Len(label_to_images) :
               /\ Len(label_to_images[k].images) > 0
               /\ Len(WritesInto(written, label_to_images[k].label)) <= target_count)
    /\ (script = "main1" /\ pc = "augment") ~> (script = "main1" /\ pc = "aug_dataset")

\* the while loop of a label went round twice (one image, two files) and the
\* function returned
C13_Witness ==
    /\ CapReturned
    /\ \E k \in 1..Len(label_to_images) :
          /\ Len(label_to_images[k].images) = 1
          /\ Len(WritesInto(written, label_to_images[k].label)) = 2

\* C14: in a label directory that held no .png file, the originals are saved
\* first: the file written with counter c < min(len(images), target_count) is
\* the image images[c] as it is, every file written with counter
\* c >= len(images) is an augmentation of images[c mod len(images)], and no
\* augmentation is written before the originals (up to target_count) are.
C14_OriginalsFirst ==
    script = "main1" =>
        \A k \in 1..Len(label_to_images) :
            LET label == label_to_images[k].label
                images == label_to_images[k].images
                log == WritesInto(written, label)
                originals == Min({Len(images), target_count})
            IN  CountPng(start.fs, label_dir_of(label)) = 0 =>
                   \A n \in 1..Len(log) :
                      /\ log[n].counter = n - 1
                      /\ log[n].path = SavedPath(label, log[n].idx, AugName(log[n].idx, n - 1))
                      /\ n - 1 < originals =>
                            /\ ~log[n].augmented
                            /\ log[n].idx = images[n]
                      /\ n - 1 >= Len(images) =>
                            /\ log[n].augmented
                            /\ log[n].idx = images[((n - 1) % Len(images)) + 1]
                      /\ log[n].augmented =>
                            \A m \in 1..originals : m < n /\ ~log[m].augmented

\* a label with one image had it saved as it is and then augmented
C14_Witness ==
    /\ CapReturned
    /\ start.fs = {}
    /\ \E k \in 1..Len(label_to_images) :
          LET log == WritesInto(written, label_to_images[k].label)
          IN  /\ Len(label_to_images[k].images) = 1
              /\ Len(log) = 2
              /\ ~log[1].augmented
              /\ log[2].augmented
              /\ log[2].idx = log[1].idx

\* the call of the function in the second run has its arguments (the
\* dataset is that of the first run, target_count is the same) and the first
\* run started on an empty output directory
SecondCapCall ==
    /\ script = "main1"
    /\ Len(earlier) = 1
    /\ earlier[1].start.fs = {}
    /\ pc \in {"aug_label", "aug_while", "aug_for", "aug_dataset", "done"}
    /\ target_count = earlier[1].target_count

\* C15: after a call that ran to completion from an empty output directory,
\* a second call with the same dataset and target_count writes no file and
\* leaves the files and the directories as they were.
C15_SecondCallWritesNothing ==
    SecondCapCall =>
        /\ written = <<>>
        /\ fs = start.fs
        /\ dirs = start.dirs

\* the second call returned after a first call that wrote files
C15_Witness ==
    /\ SecondCapCall
    /\ pc = "aug_dataset"
    /\ Len(earlier[1].written) >= 2
    /\ written = <<>>

----------------------------------------------------------------------------
(* Claims about save_augmented_images and the combined dataset (old_cnn.py) *)

\* the run is old_cnn's and the call of save_augmented_images has returned
SaveReturned ==
    /\ script = "old_cnn"
    /\ pc \notin {"check", "load", "dataset", "augment", "save_item"}
    /\ pc = "error" => err # "FileNotFoundError"

PathsOf(log) == {log[k].path : k \in 1..Len(log)}

\* C16: on an empty output directory and a dataset of N items,
\* save_augmented_images with num_augmentations = k writes N * (1 + k) .png
\* files under pairwise distinct paths, for each item one '<idx>_original.png'
\* and the k files '<idx>_aug_<j>.png'; a second run on the same dataset
\* writes the same paths again and leaves the set of files as it was.
C16_SaveWritesEachPathOnce ==
    /\ (SaveReturned /\ earlier = <<>> /\ start.fs = {}) =>
          LET N == __len__(image_paths)
              k == num_augmentations
          IN  /\ Len(written) = N * (1 + k)
              /\ PairwiseDistinctPaths(written)
              /\ fs = PathsOf(written)
              /\ Cardinality(PngFiles(fs)) = N * (1 + k)
              /\ \A i \in 0..(N - 1) :
                    /\ Cardinality({p \in fs : p[Len(p)] = OriginalName(i)}) = 1
                    /\ \A j \in 0..(k - 1) :
                          Cardinality({p \in fs : p[Len(p)] = AugName(i, j)}) = 1
    /\ (/\ SaveReturned
        /\ Len(earlier) = 1
        /\ earlier[1].start.fs = {}
        /\ num_augmentations = earlier[1].num_augmentations) =>
          /\ PathsOf(written) = PathsOf(earlier[1].written)
          /\ Len(written) = Len(earlier[1].written)
          /\ fs = start.fs

\* two items of one label were saved with an augmentation each, and saved
\* again by a second run
C16_Witness ==
    /\ SaveReturned
    /\ Len(earlier) = 1
    /\ earlier[1].start.fs = {}
    /\ num_augmentations = 1
    /\ earlier[1].num_augmentations = 1
    /\ Len(written) = 4
    /\ Cardinality(fs) = 4
    /\ Cardinality(dirs) = 2

\* old_cnn's combined dataset is built (it is not changed after that: it is
\* looked at where the split is about to be made)
CombinedBuilt == AugmentedBuilt /\ script = "old_cnn"

\* whether the item j of the combined dataset shows the original image i:
\* it is the item i of the original dataset, or a file this run saved from
\* the item i without augmenting it
ShowsOriginal(j, i) ==
    \/ j = i
    \/ /\ j >= __len__(image_paths)
       /\ \E k \in 1..Len(written) :
             /\ written[k].path = AugmentedGetItem(j).image
             /\ written[k].idx = i
             /\ ~written[k].augmented
             /\ \A m \in (k + 1)..Len(written) : written[m].path # written[k].path

----------------------------------------------------------------------------
(* Claims about the train/test split (densenetBackup1.py, old_cnn.py).      *)

\* random_split has returned
SplitMade ==
    /\ script \in {"densenetBackup1", "old_cnn"}
    /\ \/ pc \in {"loaders", "objective", "train", "evaluate", "test", "occlusion", "done"}
       \/ pc = "error" /\ err \notin {"FileNotFoundError", "ValueError: invalid literal for int()"}

Range(seq) == {seq[k] : k \in 1..Len(seq)}

\* C18: the split partitions the augmented dataset of n items: train_size is
\* the floor of 0.8 n, test_size = n - train_size, the two subsets have these
\* sizes, share no index and together hold every index 0..n-1; the test
\* subset is not empty when n >= 1, the training subset when n >= 2.
C18_SplitPartitions ==
    SplitMade =>
        LET n == AugmentedLen
        IN  /\ 10 * train_size <= 8 * n
            /\ 8 * n < 10 * train_size + 10
            /\ test_size = n - train_size
            /\ train_size + test_size = n
            /\ Len(train_dataset) = train_size
            /\ Len(test_dataset) = test_size
            /\ Cardinality(Range(train_dataset)) = train_size
            /\ Cardinality(Range(test_dataset)) = test_size
            /\ Range(train_dataset) \cap Range(test_dataset) = {}
            /\ Range(train_dataset) \cup Range(test_dataset) = 0..(n - 1)
            /\ n >= 1 => test_dataset # <<>>
            /\ n >= 2 => train_dataset # <<>>

\* five items were split four to one, by a permutation other than the
\* identity
C18_Witness ==
    /\ SplitMade
    /\ AugmentedLen = 5
    /\ train_size = 4
    /\ Len(test_dataset) = 1
    /\ test_dataset[1] # 4

----------------------------------------------------------------------------
(* Claims about compute_occlusion_sensitivity (old_cnn.py).                 *)

\* the call with occlusion_size=16, occlusion_stride=8 on a 224 x 224 image
ComputeCase ==
    /\ occ_h = img_size
    /\ occ_w = img_size
    /\ occlusion_size = compute_occlusion_size
    /\ occlusion_stride = compute_occlusion_stride

\* the map returned, where the stride is not above the window size (16 and
\* 8 among them): every pixel was assigned, and holds the score drop of the
\* window whose corner is (stride * floor(y / stride), stride * floor(x / stride))
LastWindowWins ==
    (occ_pc = "returned" /\ occlusion_stride <= occlusion_size) =>
        \A i \in Starts(occ_h, occlusion_size, occlusion_stride),
           j \in Starts(occ_w, occlusion_size, occlusion_stride) :
           \A drop \in {Score(image, original_class)
                          - Score(image \cup Window(occ_h, occ_w, i, j, occlusion_size),
                                  original_class)} :
           \A q \in Window(occ_h, occ_w, i, j, occlusion_stride) :
              /\ writes[q[1]][q[2]] >= 1
              /\ occ_result[q[1]][q[2]] = drop
              /\ WindowCorner(q) = <<i, j>>

\* C19: with overlapping windows (occlusion_size=16, occlusion_stride=8 on
\* the H x W image) every pixel is written at least once and its value in
\* the map returned is the score drop of the last window in scan order that
\* covers it, the one with the corner (8 * floor(y / 8), 8 * floor(x / 8));
\* no step of the function changes the input image.
C19_LastWindowWins == [][image' = image /\ LastWindowWins']_vars

\* the 16/8 call returned: the pixel (104, 56) was assigned by four windows,
\* the pixel (95, 47) holds the drop of the window at (88, 40) and not that of
\* an earlier window over it, the last window is cut to 8 x 8
C19_Witness ==
    /\ ComputeCase
    /\ occ_pc = "returned"
    /\ writes[104][56] = 4
    /\ occ_result[104][56] = 256
    /\ occ_result[99][49] = 248
    /\ occ_result[95][47] = 136
    /\ writes[0][0] = 1
    /\ occ_result[0][0] = 0
    /\ occ_result[223][223] = 64

====
